---- MODULE Spec2Model ----
(***************************************************************************)
(* State-machine model of the PDFViewer component                          *)
(* (src/components/pdf/PDFViewer.jsx): the React state cells, the          *)
(* asynchronous FileReader reads, the react-pdf document load, the         *)
(* suspended savePDF exports and the event handlers that act on them.      *)
(*                                                                         *)
(* Units: scale is kept in tenths (1.0 is 10), screen lengths in pixels,   *)
(* overlay lengths in tenths of a pixel (pixels times scale in tenths),    *)
(* colour channels in 1/255.                                               *)
(***************************************************************************)
EXTENDS Integers, Sequences, FiniteSets, TLC

\* ------------------------------------------------------------- bounds
\* number of distinct PDF files the user can pick
NumFiles == 2
\* FileReader reads that may be pending at once
MaxReads == 2
\* length of the highlight list
MaxHighlights == 2
\* last reading of Date.now() (milliseconds since the start of the run)
MaxClock == 2
\* savePDF invocations in one run
MaxExports == 1
\* representable ids per millisecond: the double nearest to
\* Date.now() + Math.random() is a multiple of 1/RandLevels
RandLevels == 2

\* ------------------------------------------------------------- values
Min(a, b) == IF a < b THEN a ELSE b
Max(a, b) == IF a > b THEN a ELSE b

\* useState(null): file, numPages and pdfBytes start as null
Null == 0
Files == 1..NumFiles
\* event.target.files[0]: undefined when nothing was picked, else a file with a MIME type
NoPick == [id |-> Null, type |-> "undefined"]
PickedFiles ==
    {NoPick, [id |-> 1, type |-> "text/plain"]}
        \cup {[id |-> f, type |-> "application/pdf"] : f \in Files}
\* number of pages react-pdf reports for the bytes of file f
PageCountOf(f) == 2 - ((f - 1) % 2)
\* page.getSize().height of a page of the document opened from bytes b
PageHeightOf(b) == 700 + 92 * b

\* scale limits and step of zoomIn / zoomOut, in tenths
ScaleMin == 5
ScaleMax == 30
ScaleStep == 2
ScaleInit == 10
\* rect.width < 5 || rect.height < 5
MinSelectionSize == 5
\* highlight.text.substring(0, 50)
LabelMax == 50

\* '#FFFF00' and another value of the colour input, as hex digits
Yellow == <<15, 15, 15, 15, 0, 0>>
Green == <<0, 0, 15, 15, 0, 0>>
Colors == {Yellow, Green}

VARIABLES
    file,            \* useState: the selected File (Null or a file id)
    numPages,        \* useState: page count of the last loaded document
    pageNumber,      \* useState: current page
    scale,           \* useState: zoom, in tenths
    highlights,      \* useState: the highlight list
    isSelecting,     \* useState: highlight mode
    highlightColor,  \* useState: colour of the next highlight
    pdfBytes,        \* useState: bytes kept for export (Null or a file id)
    reads,           \* FileReader reads in flight, in selection order
    docLoading,      \* file react-pdf's <Document> is loading, or Null
    exports,         \* savePDF invocations, each with its closure and stage
    downloads,       \* documents offered for download by savePDF
    now,             \* last reading of Date.now()
    lastOp,          \* history: name of the last handler that ran
    lastSel          \* history: input and outcome of the last handleTextSelect

vars == <<file, numPages, pageNumber, scale, highlights, isSelecting, highlightColor,
          pdfBytes, reads, docLoading, exports, downloads, now, lastOp, lastSel>>

NoSel == [text |-> <<>>, rangeCount |-> 0,
          rect |-> [x |-> 0, y |-> 0, width |-> 0, height |-> 0]]

Init ==
    /\ file = Null
    /\ numPages = Null
    /\ pageNumber = 1
    /\ scale = ScaleInit
    /\ highlights = <<>>
    /\ isSelecting = FALSE
    /\ highlightColor = Yellow
    /\ pdfBytes = Null
    /\ reads = <<>>
    /\ docLoading = Null
    /\ exports = <<>>
    /\ downloads = <<>>
    /\ now = 0
    /\ lastOp = "init"
    /\ lastSel = NoSel

\* ------------------------------------------------------------- file load
\* History kept with a pending read: the session as it was when the file was
\* picked. NoSnapshot where a specification keeps no such history.
Session == [file |-> file, pdfBytes |-> pdfBytes, numPages |-> numPages,
            pageNumber |-> pageNumber, highlights |-> highlights]
NoSnapshot == [file |-> Null, pdfBytes |-> Null, numPages |-> Null,
               pageNumber |-> 1, highlights |-> <<>>]

RemoveAt(s, i) == SubSeq(s, 1, i - 1) \o SubSeq(s, i + 1, Len(s))

\* onFileChange: a PDF is stored in `file` at once, its read is started and
\* <Document file={file}> begins loading it; anything else only toasts.
OnFileChange(selectedFile, snapshot) ==
    /\ lastOp' = "onFileChange"
    /\ IF selectedFile # NoPick /\ selectedFile.type = "application/pdf"
       THEN /\ Len(reads) < MaxReads
            /\ file' = selectedFile.id
            /\ reads' = Append(reads, [f |-> selectedFile.id, before |-> snapshot])
            /\ docLoading' = selectedFile.id
       ELSE UNCHANGED <<file, reads, docLoading>>
    /\ UNCHANGED <<numPages, pageNumber, scale, highlights, isSelecting, highlightColor,
                   pdfBytes, exports, downloads, now, lastSel>>

\* reader.onload of the i-th pending read: setPdfBytes(e.target.result)
ReaderOnLoad(i) ==
    /\ i \in 1..Len(reads)
    /\ pdfBytes' = reads[i].f
    /\ reads' = RemoveAt(reads, i)
    /\ lastOp' = "readerOnLoad"
    /\ UNCHANGED <<file, numPages, pageNumber, scale, highlights, isSelecting,
                   highlightColor, docLoading, exports, downloads, now, lastSel>>

\* reader.onerror of the i-th pending read: logs and toasts, sets nothing
ReaderOnError(i) ==
    /\ i \in 1..Len(reads)
    /\ reads' = RemoveAt(reads, i)
    /\ lastOp' = "readerOnError"
    /\ UNCHANGED <<file, numPages, pageNumber, scale, highlights, isSelecting,
                   highlightColor, pdfBytes, docLoading, exports, downloads, now, lastSel>>

\* onDocumentLoadSuccess({numPages}): called by <Document> for the file it loaded
OnDocumentLoadSuccess ==
    /\ docLoading # Null
    /\ numPages' = PageCountOf(docLoading)
    /\ pageNumber' = 1
    /\ docLoading' = Null
    /\ lastOp' = "onDocumentLoadSuccess"
    /\ UNCHANGED <<file, scale, highlights, isSelecting, highlightColor, pdfBytes,
                   reads, exports, downloads, now, lastSel>>

\* <Document onLoadError>: logs and toasts, sets nothing
OnDocumentLoadError ==
    /\ docLoading # Null
    /\ docLoading' = Null
    /\ lastOp' = "onDocumentLoadError"
    /\ UNCHANGED <<file, numPages, pageNumber, scale, highlights, isSelecting,
                   highlightColor, pdfBytes, reads, exports, downloads, now, lastSel>>

\* ------------------------------------------------------------- pages
\* Math.min(Math.max(1, newPage), numPages)
ClampPage(newPage, n) == Min(Max(1, newPage), n)

changePage(offset) ==
    /\ pageNumber' = ClampPage(pageNumber + offset, numPages)
    /\ UNCHANGED <<file, numPages, scale, highlights, isSelecting, highlightColor,
                   pdfBytes, reads, docLoading, exports, downloads, now, lastSel>>

\* the button is rendered when numPages is set and disabled when pageNumber <= 1
PreviousPage ==
    /\ numPages # Null
    /\ ~(pageNumber <= 1)
    /\ changePage(-1)
    /\ lastOp' = "previousPage"

\* the button is rendered when numPages is set and disabled when pageNumber >= numPages
NextPage ==
    /\ numPages # Null
    /\ ~(pageNumber >= numPages)
    /\ changePage(1)
    /\ lastOp' = "nextPage"

\* click on the i-th sidebar entry: setPageNumber(highlight.pageNumber)
NavigateToHighlight(i) ==
    /\ i \in 1..Len(highlights)
    /\ pageNumber' = highlights[i].pageNumber
    /\ lastOp' = "navigateToHighlight"
    /\ UNCHANGED <<file, numPages, scale, highlights, isSelecting, highlightColor,
                   pdfBytes, reads, docLoading, exports, downloads, now, lastSel>>

\* ------------------------------------------------------------- zoom
\* variant of zoomInScale that forgets the upper clamp
zoomInUnclamped(prev) == prev + ScaleStep
\* prev => Math.min(prev + 0.2, 3.0)
zoomInScale(prev) == Min(prev + ScaleStep, ScaleMax)
\* variant of zoomOutScale that steps by 0.1
zoomOutSmallStep(prev) == Max(prev - 1, ScaleMin)
\* prev => Math.max(prev - 0.2, 0.5)
zoomOutScale(prev) == Max(prev - ScaleStep, ScaleMin)

zoomIn ==
    /\ scale' = zoomInScale(scale)
    /\ lastOp' = "zoomIn"
    /\ UNCHANGED <<file, numPages, pageNumber, highlights, isSelecting, highlightColor,
                   pdfBytes, reads, docLoading, exports, downloads, now, lastSel>>

zoomOut ==
    /\ scale' = zoomOutScale(scale)
    /\ lastOp' = "zoomOut"
    /\ UNCHANGED <<file, numPages, pageNumber, highlights, isSelecting, highlightColor,
                   pdfBytes, reads, docLoading, exports, downloads, now, lastSel>>

\* ------------------------------------------------------------- highlight mode
toggleHighlightMode ==
    /\ isSelecting' = ~isSelecting
    /\ lastOp' = "toggleHighlightMode"
    /\ UNCHANGED <<file, numPages, pageNumber, scale, highlights, highlightColor,
                   pdfBytes, reads, docLoading, exports, downloads, now, lastSel>>

\* onChange of the colour input: setHighlightColor(e.target.value)
SetHighlightColor(c) ==
    /\ c # highlightColor
    /\ highlightColor' = c
    /\ lastOp' = "setHighlightColor"
    /\ UNCHANGED <<file, numPages, pageNumber, scale, highlights, isSelecting,
                   pdfBytes, reads, docLoading, exports, downloads, now, lastSel>>

\* ------------------------------------------------------------- selection capture
IsSpace(c) == c = " "

\* String.prototype.trim on a sequence of characters
RECURSIVE TrimStart(_)
TrimStart(s) == IF s # <<>> /\ IsSpace(Head(s)) THEN TrimStart(Tail(s)) ELSE s
RECURSIVE TrimEnd(_)
TrimEnd(s) ==
    IF s # <<>> /\ IsSpace(s[Len(s)]) THEN TrimEnd(SubSeq(s, 1, Len(s) - 1)) ELSE s
Trim(s) == TrimEnd(TrimStart(s))

\* container.getBoundingClientRect(): the top-left corner of the viewer container
ContainerRect == [x |-> 10, y |-> 10]

\* Math.random() in units of 1/(3 * RandLevels): a value in [0, 1)
RandomValues == 0..(3 * RandLevels - 1)

\* Date.now() + Math.random() in units of 1/RandLevels: the sum is rounded to
\* the nearest representable double, so a fraction close to 1 rounds up to
\* the next millisecond.
NewId(t, r) == t * RandLevels + ((r + 1) \div 3)

\* variant of HighlightPosition without Math.max(0, ...)
HighlightPositionUnclamped(rect, containerRect) ==
    [x |-> rect.x - containerRect.x,
     y |-> rect.y - containerRect.y,
     width |-> rect.width,
     height |-> rect.height]
\* position: { x: Math.max(0, rect.x - containerRect.x), ..., width: rect.width, ... }
HighlightPosition(rect, containerRect) ==
    [x |-> Max(0, rect.x - containerRect.x),
     y |-> Max(0, rect.y - containerRect.y),
     width |-> rect.width,
     height |-> rect.height]

\* variant of TooSmall that rejects only when both sides are short (&& for ||)
TooSmallBoth(rect) == rect.width < MinSelectionSize /\ rect.height < MinSelectionSize
\* rect.width < 5 || rect.height < 5
TooSmall(rect) == rect.width < MinSelectionSize \/ rect.height < MinSelectionSize

\* The early returns of handleTextSelect, in source order.
SelectionRejected(sel) ==
    \/ ~isSelecting
    \/ Trim(sel.text) = <<>>
    \/ sel.rangeCount = 0
    \/ TooSmall(sel.rect)

NewHighlight(sel, t, r) ==
    [id |-> NewId(t, r),
     text |-> Trim(sel.text),
     pageNumber |-> pageNumber,
     color |-> highlightColor,
     position |-> HighlightPosition(sel.rect, ContainerRect)]

\* variant of AddHighlight that puts the new highlight first ([highlight, ...prev])
PrependHighlight(prev, h) == <<h>> \o prev
\* setHighlights(prev => [...prev, highlight])
AddHighlight(prev, h) == Append(prev, h)

\* variant of handleTextSelect that also goes back to the first page when it
\* stores a highlight
handleTextSelectToFirstPage(sel, t, r) ==
    /\ lastOp' = "handleTextSelect"
    /\ lastSel' = sel
    /\ IF SelectionRejected(sel)
       THEN UNCHANGED <<highlights, now, pageNumber>>
       ELSE /\ Len(highlights) < MaxHighlights
            /\ t >= now
            /\ t <= MaxClock
            /\ now' = t
            /\ highlights' = AddHighlight(highlights, NewHighlight(sel, t, r))
            /\ pageNumber' = 1
    /\ UNCHANGED <<file, numPages, scale, isSelecting, highlightColor,
                   pdfBytes, reads, docLoading, exports, downloads>>

\* handleTextSelect on mouse-up inside the container. sel is what
\* window.getSelection() reports, t the reading of Date.now() and r the
\* value of Math.random() (both read only when a highlight is built). The
\* list length and the clock are capped by MaxHighlights and MaxClock.
handleTextSelect(sel, t, r) ==
    /\ lastOp' = "handleTextSelect"
    /\ lastSel' = sel
    /\ IF SelectionRejected(sel)
       THEN UNCHANGED <<highlights, now>>
       ELSE /\ Len(highlights) < MaxHighlights
            /\ t >= now
            /\ t <= MaxClock
            /\ now' = t
            /\ highlights' = AddHighlight(highlights, NewHighlight(sel, t, r))
    /\ UNCHANGED <<file, numPages, pageNumber, scale, isSelecting, highlightColor,
                   pdfBytes, reads, docLoading, exports, downloads>>

\* variant of FilterOut that removes one element by position (findIndex, then
\* splice): splice(-1, 1) removes the last element when no id matches
FilterOutSplice(prev, id) ==
    LET ks == {k \in 1..Len(prev) : prev[k].id = id}
        i == IF ks = {} THEN Len(prev) ELSE CHOOSE k \in ks : \A j \in ks : k <= j
    IN IF prev = <<>> THEN prev ELSE RemoveAt(prev, i)
\* prev.filter(h => h.id !== id)
FilterOut(prev, id) == SelectSeq(prev, LAMBDA h : h.id # id)

removeHighlight(id) ==
    /\ highlights' = FilterOut(highlights, id)
    /\ lastOp' = "removeHighlight"
    /\ UNCHANGED <<file, numPages, pageNumber, scale, isSelecting, highlightColor,
                   pdfBytes, reads, docLoading, exports, downloads, now, lastSel>>

\* style of the overlay <div> of highlight h at zoom s (tenths of a pixel)
OverlayStyle(h, s) ==
    [top |-> h.position.y * s,
     left |-> h.position.x * s,
     width |-> h.position.width * s,
     height |-> h.position.height * s]

\* ------------------------------------------------------------- export
\* parseInt(hexColor.substr(i, 2), 16) for the three channels (each over 255)
HexToRgb(c) == <<16 * c[1] + c[2], 16 * c[3] + c[4], 16 * c[5] + c[6]>>

\* highlight.text.substring(0, 50)
Label(text) == SubSeq(text, 1, Min(Len(text), LabelMax))

\* highlights.indexOf(highlight) for the k-th element of the loop (object identity)
IndexOf(hl, k) == k - 1

\* the drawRectangle / drawText pair issued for the k-th highlight of hl
Mark(bytes, hl, k) ==
    [page |-> hl[k].pageNumber - 1,
     rectY |-> PageHeightOf(bytes) - 100 - (IndexOf(hl, k) * 20),
     textY |-> PageHeightOf(bytes) - 95 - (IndexOf(hl, k) * 20),
     color |-> HexToRgb(hl[k].color),
     label |-> Label(hl[k].text)]

\* pdfDoc.getPage(index) throws unless 0 <= index < page count
GetPageThrows(bytes, hl) ==
    \E k \in 1..Len(hl) : hl[k].pageNumber - 1 \notin 0..(PageCountOf(bytes) - 1)

\* variant of ClosureHighlights that reads the list current when the loop runs
LiveHighlights(e) == highlights
\* what the body of savePDF reads after its await: the values of the render
\* whose closure was invoked
ClosureBytes(e) == e.pdfBytes
ClosureHighlights(e) == e.highlights

\* savePDF up to `await PDFDocument.load(pdfBytes)`. The button is disabled
\* while `file` is null; with no bytes yet it only toasts.
savePDF ==
    /\ file # Null
    /\ lastOp' = "savePDF"
    /\ IF pdfBytes = Null
       THEN UNCHANGED exports
       ELSE /\ Len(exports) + Len(downloads) < MaxExports
            /\ exports' = Append(exports, [pdfBytes |-> pdfBytes, highlights |-> highlights,
                                           stage |-> "load", marks |-> <<>>])
    /\ UNCHANGED <<file, numPages, pageNumber, scale, highlights, isSelecting,
                   highlightColor, pdfBytes, reads, docLoading, downloads, now, lastSel>>

\* the Blob of pdfBytesModified handed to link.click(); `closure` is history:
\* the bytes and highlights of the render that invoked savePDF
Download(e) ==
    [name |-> "edited_document.pdf", base |-> ClosureBytes(e), marks |-> e.marks,
     closure |-> [pdfBytes |-> e.pdfBytes, highlights |-> e.highlights]]

\* variant of ExportCatch that still offers what was drawn so far
ExportCatchOffersPartial(i) ==
    /\ exports' = RemoveAt(exports, i)
    /\ lastOp' = "exportFailed"
    /\ downloads' = Append(downloads, Download(exports[i]))

\* the catch block: logs and toasts; the export is over, nothing is offered
ExportCatch(i) ==
    /\ exports' = RemoveAt(exports, i)
    /\ lastOp' = "exportFailed"
    /\ UNCHANGED downloads

\* PDFDocument.load settles for the i-th export. When it resolves the for
\* loop runs to its end (or throws) and the export suspends at pdfDoc.save().
ExportLoad(i, loadOk, drawOk) ==
    /\ i \in 1..Len(exports)
    /\ exports[i].stage = "load"
    /\ LET e == exports[i]
           hl == ClosureHighlights(e)
       IN IF ~loadOk \/ GetPageThrows(ClosureBytes(e), hl) \/ (hl # <<>> /\ ~drawOk)
          THEN ExportCatch(i)
          ELSE /\ exports' = [exports EXCEPT ![i].stage = "save",
                                ![i].marks = [k \in 1..Len(hl) |-> Mark(ClosureBytes(e), hl, k)]]
               /\ lastOp' = "exportDrawn"
               /\ UNCHANGED downloads
    /\ UNCHANGED <<file, numPages, pageNumber, scale, highlights, isSelecting,
                   highlightColor, pdfBytes, reads, docLoading, now, lastSel>>

\* pdfDoc.save() settles for the i-th export: the download, or the catch block
ExportSave(i, saveOk) ==
    /\ i \in 1..Len(exports)
    /\ exports[i].stage = "save"
    /\ IF saveOk
       THEN /\ downloads' = Append(downloads, Download(exports[i]))
            /\ exports' = RemoveAt(exports, i)
            /\ lastOp' = "exportSaved"
       ELSE ExportCatch(i)
    /\ UNCHANGED <<file, numPages, pageNumber, scale, highlights, isSelecting,
                   highlightColor, pdfBytes, reads, docLoading, now, lastSel>>

\* ------------------------------------------------------------- inputs
Rect(x, y, w, h) == [x |-> x, y |-> y, width |-> w, height |-> h]
Selection(text, rangeCount, rect) == [text |-> text, rangeCount |-> rangeCount, rect |-> rect]

\* a selection of the word "ab" with a 40 x 12 rectangle
PlainSelection == Selection(<<"a", "b">>, 1, Rect(110, 210, 40, 12))

\* selections with every reason for rejection, at and around the 5 pixel
\* threshold, and one that starts left of and above the container
Selections ==
    {Selection(text, rc, rect) :
        text \in {<<>>, <<" ">>, <<" ", "a", "b", " ">>, <<"a", "b">>},
        rc \in {0, 1},
        rect \in {Rect(110, 210, 40, 12), Rect(110, 210, 4, 12), Rect(110, 210, 40, 4),
                  Rect(30, 20, 5, 5), Rect(4, 6, 40, 12)}}

\* every id Date.now() + Math.random() can produce up to MaxClock, and one more
IdValues == 0..((MaxClock + 1) * RandLevels)

\* ------------------------------------------------------------- specifications
\* The session: file loads, navigation and highlights. Successive
\* selections are at least a millisecond apart.
Next ==
    \/ \E sf \in PickedFiles : OnFileChange(sf, NoSnapshot)
    \/ \E i \in 1..Len(reads) : ReaderOnLoad(i)
    \/ \E i \in 1..Len(reads) : ReaderOnError(i)
    \/ OnDocumentLoadSuccess
    \/ OnDocumentLoadError
    \/ PreviousPage
    \/ NextPage
    \/ \E i \in 1..Len(highlights) : NavigateToHighlight(i)
    \/ toggleHighlightMode
    \/ handleTextSelect(PlainSelection, now + 1, 0)
    \/ \E i \in 1..Len(highlights) : removeHighlight(highlights[i].id)

Spec == Init /\ [][Next]_vars

\* Export: savePDF and its suspended steps after file loads, page changes
\* and highlight creation. A file is picked once the previous one has been
\* read and displayed.
NextExport ==
    \/ reads = <<>> /\ docLoading = Null /\ \E sf \in PickedFiles : OnFileChange(sf, NoSnapshot)
    \/ \E i \in 1..Len(reads) : ReaderOnLoad(i)
    \/ OnDocumentLoadSuccess
    \/ NextPage
    \/ toggleHighlightMode
    \/ handleTextSelect(PlainSelection, now + 1, 0)
    \/ savePDF
    \/ \E i \in 1..Len(exports), loadOk \in BOOLEAN, drawOk \in BOOLEAN :
           ExportLoad(i, loadOk, drawOk)
    \/ \E i \in 1..Len(exports), saveOk \in BOOLEAN : ExportSave(i, saveOk)

SpecExport == Init /\ [][NextExport]_vars

\* Export snapshots: file loads and highlight creation and deletion while
\* exports are suspended. A file is picked once the previous read has settled.
NextSnapshot ==
    \/ reads = <<>> /\ \E sf \in PickedFiles : OnFileChange(sf, NoSnapshot)
    \/ \E i \in 1..Len(reads) : ReaderOnLoad(i)
    \/ toggleHighlightMode
    \/ handleTextSelect(PlainSelection, now + 1, 0)
    \/ \E i \in 1..Len(highlights) : removeHighlight(highlights[i].id)
    \/ savePDF
    \/ \E i \in 1..Len(exports), loadOk \in BOOLEAN, drawOk \in BOOLEAN :
           ExportLoad(i, loadOk, drawOk)
    \/ \E i \in 1..Len(exports), saveOk \in BOOLEAN : ExportSave(i, saveOk)

SpecSnapshot == Init /\ [][NextSnapshot]_vars

\* Reads: a pending read remembers the session it was started from.
NextRead ==
    \/ \E sf \in PickedFiles : OnFileChange(sf, Session)
    \/ \E i \in 1..Len(reads) : ReaderOnLoad(i)
    \/ \E i \in 1..Len(reads) : ReaderOnError(i)
    \/ OnDocumentLoadSuccess
    \/ toggleHighlightMode
    \/ handleTextSelect(PlainSelection, now + 1, 0)

SpecRead == Init /\ [][NextRead]_vars

\* Selection capture and zoom: every kind of selection at every zoom level.
NextCapture ==
    \/ zoomIn
    \/ zoomOut
    \/ toggleHighlightMode
    \/ \E sel \in Selections : handleTextSelect(sel, now + 1, 0)

SpecCapture == Init /\ [][NextCapture]_vars

\* an accepted selection, one too narrow and one of white space only
FrameSelections ==
    {PlainSelection,
     Selection(<<"a", "b">>, 1, Rect(110, 210, 4, 12)),
     Selection(<<" ">>, 1, Rect(110, 210, 40, 12))}

\* Pages and zoom: selections on any page of a displayed document at any
\* zoom level. A file is picked once the previous one has been read and
\* displayed.
NextFrame ==
    \/ reads = <<>> /\ docLoading = Null /\ \E sf \in PickedFiles : OnFileChange(sf, NoSnapshot)
    \/ \E i \in 1..Len(reads) : ReaderOnLoad(i)
    \/ OnDocumentLoadSuccess
    \/ PreviousPage
    \/ NextPage
    \/ zoomIn
    \/ zoomOut
    \/ toggleHighlightMode
    \/ \E sel \in FrameSelections : handleTextSelect(sel, now + 1, 0)

SpecFrame == Init /\ [][NextFrame]_vars

\* Overlapping reads that all succeed: files are picked while earlier reads
\* are pending, and the reads complete in any order.
NextOrder ==
    \/ \E sf \in PickedFiles : OnFileChange(sf, NoSnapshot)
    \/ \E i \in 1..Len(reads) : ReaderOnLoad(i)
    \/ OnDocumentLoadSuccess
    \/ PreviousPage
    \/ NextPage

SpecOrder == Init /\ [][NextOrder]_vars

\* Highlight ids: selections in the same or the next millisecond, with any
\* value of Math.random() and either colour, and removeHighlight called with
\* any id, in the list or not.
NextIds ==
    \/ toggleHighlightMode
    \/ \E c \in Colors : SetHighlightColor(c)
    \/ \E t \in {now, now + 1}, r \in RandomValues : handleTextSelect(PlainSelection, t, r)
    \/ \E id \in IdValues : removeHighlight(id)

SpecIds == Init /\ [][NextIds]_vars

\* ------------------------------------------------------------- properties
\* The highlight added by the last handleTextSelect, when it added one.
LastHighlight == highlights[Len(highlights)]

\* selection.toString() holds nothing but white space
OnlySpaces(text) == \A k \in 1..Len(text) : text[k] = " "

\* The last handler was handleTextSelect and none of its early returns was taken.
JustCaptured ==
    /\ lastOp = "handleTextSelect"
    /\ isSelecting
    /\ ~OnlySpaces(lastSel.text)
    /\ lastSel.rangeCount # 0
    /\ lastSel.rect.width >= 5
    /\ lastSel.rect.height >= 5

\* C1 (as claimed): once a picked PDF has been read and onDocumentLoadSuccess
\* has run for it, the highlight list is empty and the current page is 1.
C1_LoadResets ==
    (lastOp = "onDocumentLoadSuccess" /\ reads = <<>> /\ pdfBytes = file)
        => (highlights = <<>> /\ pageNumber = 1)

\* C2 (as claimed): whenever a document is loaded, 1 <= pageNumber <= numPages.
C2_PageInRange ==
    (file # Null /\ numPages # Null /\ docLoading = Null)
        => (1 <= pageNumber /\ pageNumber <= numPages)

\* C3 (as claimed): when reader.onerror runs for a read, file, pdfBytes,
\* numPages, pageNumber and highlights are what they were before that file
\* was picked.
C3_FailedReadRestores ==
    [][\A i \in 1..Len(reads) : ReaderOnError(i) => Session' = reads[i].before]_vars

\* C4: no step of savePDF writes highlights, file or pdfBytes; a failed
\* export offers no download; a download appears only when save() resolves,
\* and it carries one mark per highlight of the export.
C4_ExportAllOrNothing ==
    [][/\ lastOp' \in {"savePDF", "exportDrawn", "exportSaved", "exportFailed"}
          => (highlights' = highlights /\ file' = file /\ pdfBytes' = pdfBytes)
       /\ lastOp' = "exportFailed" => downloads' = downloads
       /\ downloads' # downloads
          => \E i \in 1..Len(exports) :
                /\ exports[i].stage = "save"
                /\ lastOp' = "exportSaved"
                /\ Len(downloads') = Len(downloads) + 1
                /\ SubSeq(downloads', 1, Len(downloads)) = downloads
                /\ Len(downloads'[Len(downloads')].marks) = Len(exports[i].highlights)]_vars

\* C4 witness: an export has just failed, with a highlight on a page the
\* exported bytes do not have, and nothing has been offered for download.
C4_Witness ==
    /\ lastOp = "exportFailed"
    /\ pdfBytes # Null
    /\ \E k \in 1..Len(highlights) : highlights[k].pageNumber > PageCountOf(pdfBytes)
    /\ downloads = <<>>

\* C5: every download was made from the bytes and from the highlight list
\* that were current when its savePDF was invoked.
C5_ExportUsesSnapshot ==
    \A n \in 1..Len(downloads) :
        LET d == downloads[n]
        IN /\ d.base = d.closure.pdfBytes
           /\ Len(d.marks) = Len(d.closure.highlights)
           /\ \A k \in 1..Len(d.marks) :
                /\ d.marks[k].page = d.closure.highlights[k].pageNumber - 1
                /\ d.marks[k].label = d.closure.highlights[k].text

\* C5 witness: an export has just completed although both the bytes and the
\* highlight list changed while it was suspended.
C5_Witness ==
    /\ lastOp = "exportSaved"
    /\ downloads # <<>>
    /\ downloads[Len(downloads)].closure.pdfBytes # pdfBytes
    /\ downloads[Len(downloads)].closure.highlights # highlights
    /\ downloads[Len(downloads)].closure.highlights # <<>>

\* C6: handleTextSelect leaves the list as it is when highlight mode is off,
\* the selection is empty or white space, there is no range, or the
\* rectangle is narrower or lower than 5 pixels; otherwise it appends one
\* highlight.
C6_CaptureRule ==
    [][lastOp' = "handleTextSelect"
         => IF \/ ~isSelecting
               \/ OnlySpaces(lastSel'.text)
               \/ lastSel'.rangeCount = 0
               \/ lastSel'.rect.width < 5
               \/ lastSel'.rect.height < 5
            THEN highlights' = highlights
            ELSE /\ Len(highlights') = Len(highlights) + 1
                 /\ SubSeq(highlights', 1, Len(highlights)) = highlights]_vars

\* C6 witness: a selection of real text with a range, 4 pixels wide and 12
\* high, has just been handled in highlight mode and the list is still empty.
C6_Witness ==
    /\ lastOp = "handleTextSelect"
    /\ isSelecting
    /\ ~OnlySpaces(lastSel.text)
    /\ lastSel.rangeCount = 1
    /\ lastSel.rect.width < 5
    /\ lastSel.rect.height >= 5
    /\ highlights = <<>>

\* C7 (as claimed): for a selection just captured at scale s whose
\* rectangle relative to the container is R (inside the container), the
\* overlay at every scale s2 is R scaled by s2 / s; at s2 = s it is R.
C7_ZoomIndependent ==
    (/\ JustCaptured
     /\ lastSel.rect.x >= ContainerRect.x
     /\ lastSel.rect.y >= ContainerRect.y)
        => \A s2 \in ScaleMin..ScaleMax :
              LET o == OverlayStyle(LastHighlight, s2)
              IN /\ o.left * scale = 10 * (lastSel.rect.x - ContainerRect.x) * s2
                 /\ o.top * scale = 10 * (lastSel.rect.y - ContainerRect.y) * s2
                 /\ o.width * scale = 10 * lastSel.rect.width * s2
                 /\ o.height * scale = 10 * lastSel.rect.height * s2

\* C8: the scale stays within [0.5, 3.0].
C8_ScaleInRange == 5 <= scale /\ scale <= 30

\* C8 witness: zoomIn has just run and the scale is at the upper limit.
C8_Witness == lastOp = "zoomIn" /\ scale = 30

\* C9 (as claimed): zoomIn below 3.0 adds exactly 0.2 and zoomOut above 0.5
\* subtracts exactly 0.2.
C9_ExactStep ==
    [][/\ (lastOp' = "zoomIn" /\ scale < 30) => scale' = scale + 2
       /\ (lastOp' = "zoomOut" /\ scale > 5) => scale' = scale - 2]_vars

\* C9 (amended): zoomIn at or below 2.8 adds exactly 0.2 and from 2.9 gives
\* 3.0; zoomOut at or above 0.7 subtracts exactly 0.2 and from 0.6 gives 0.5.
C9_ExactStepAwayFromLimit ==
    [][/\ (lastOp' = "zoomIn" /\ scale <= 28) => scale' = scale + 2
       /\ (lastOp' = "zoomIn" /\ scale = 29) => scale' = 30
       /\ (lastOp' = "zoomOut" /\ scale >= 7) => scale' = scale - 2
       /\ (lastOp' = "zoomOut" /\ scale = 6) => scale' = 5]_vars

\* C9 witness: zoomIn has just brought the scale to 2.9, one tenth below the limit.
C9_Witness == lastOp = "zoomIn" /\ scale = 29

\* C10 (as claimed): no two highlights in the list have the same id.
C10_UniqueIds ==
    \A i \in 1..Len(highlights), j \in 1..Len(highlights) :
        i # j => highlights[i].id # highlights[j].id

\* C11: removeHighlight with an id that no highlight carries leaves the list
\* as it is, and filtering a list twice by the same id gives what filtering
\* it once gives.
C11_RemoveAbsentIdempotent ==
    \A id \in IdValues :
        /\ (\A k \in 1..Len(highlights) : highlights[k].id # id)
               => FilterOut(highlights, id) = highlights
        /\ FilterOut(FilterOut(highlights, id), id) = FilterOut(highlights, id)

\* removeHighlight has just run on a full list and the list is still full:
\* the id it was given was carried by no highlight
C11_Witness == lastOp = "removeHighlight" /\ Len(highlights) = MaxHighlights

\* C12: a step that changes the highlight list either appends one highlight
\* at the end, or deletes the highlights that carry one id and keeps the
\* others, unchanged, in their order.
C12_AppendOrDelete ==
    [][highlights' # highlights =>
         \/ /\ Len(highlights') = Len(highlights) + 1
            /\ SubSeq(highlights', 1, Len(highlights)) = highlights
         \/ \E id \in {highlights[k].id : k \in 1..Len(highlights)} :
                highlights' = SelectSeq(highlights, LAMBDA h : h.id # id)]_vars

\* the first of two highlights has been deleted and the second is left
C12_Witness ==
    /\ lastOp = "removeHighlight"
    /\ Len(highlights) = 1
    /\ highlights[1].id = NewId(2, 0)

\* C13 (as claimed): a highlight is created only while a document is present:
\* with no file picked the highlight list is empty.
C13_OnlyWithDocument == file = Null => highlights = <<>>

\* C14 (as claimed): a highlight just created carries a page number between
\* 1 and the page count of the selected file, the file it is created against.
C14_PageOfDocument ==
    (JustCaptured /\ file # Null)
        => (1 <= LastHighlight.pageNumber /\ LastHighlight.pageNumber <= PageCountOf(file))

\* the number of highlights before the k-th that are on the page of the k-th
OrdinalOnPage(hl, k) ==
    Cardinality({j \in 1..(k - 1) : hl[j].pageNumber = hl[k].pageNumber})

\* C15 (as claimed): in every download the marker and the label of a highlight
\* sit 20 units lower for each earlier highlight of the same page, and for
\* those only.
C15_OffsetPerPage ==
    \A n \in 1..Len(downloads) :
        LET d == downloads[n]
        IN \A k \in 1..Len(d.marks) :
               /\ d.marks[k].rectY =
                      PageHeightOf(d.base) - 100 - 20 * OrdinalOnPage(d.closure.highlights, k)
               /\ d.marks[k].textY =
                      PageHeightOf(d.base) - 95 - 20 * OrdinalOnPage(d.closure.highlights, k)

\* C16: a selection capture, accepted or rejected, leaves the current page
\* and the scale as they were.
C16_CaptureFrame ==
    [][lastOp' = "handleTextSelect" => (pageNumber' = pageNumber /\ scale' = scale)]_vars

\* a highlight has just been stored on page 2 at a zoom other than 1.0
C16_Witness == JustCaptured /\ pageNumber = 2 /\ scale # ScaleInit

\* C17: every stored highlight has a positive width and height and
\* non-negative x and y, also when the selection rectangle starts left of or
\* above the container.
C17_PositionValid ==
    \A k \in 1..Len(highlights) :
        /\ highlights[k].position.width > 0
        /\ highlights[k].position.height > 0
        /\ highlights[k].position.x >= 0
        /\ highlights[k].position.y >= 0

\* a selection that starts left of and above the container has just been
\* stored, at the container's origin
C17_Witness ==
    /\ JustCaptured
    /\ lastSel.rect.x < ContainerRect.x
    /\ lastSel.rect.y < ContainerRect.y
    /\ LastHighlight.position.x = 0
    /\ LastHighlight.position.y = 0

\* C18 (as claimed): when files are picked one after the other and every
\* read succeeds, in whatever order, then once no read is pending pdfBytes
\* holds the bytes of the file picked last, the one in `file`.
C18_BytesOfLatestFile == (reads = <<>> /\ file # Null) => pdfBytes = file

\* C19 (as claimed): an export is started from the bytes of the file that is
\* selected when savePDF is invoked, so the download it produces is a copy of
\* that file and of no earlier one.
C19_ExportsSelectedFile ==
    [][(lastOp' = "savePDF" /\ Len(exports') > Len(exports))
          => exports'[Len(exports')].pdfBytes = file]_vars

====
